---- MODULE Spec2Model ----
(***************************************************************************)
(* Voice tool for Editor.js: the recorder (recorder.js), the uploader, the *)
(* Ui and the VoiceRecord controller that wires them.                      *)
(*                                                                         *)
(* JavaScript runs one task at a time and drains the microtask queue       *)
(* (promise reactions) before the next task starts.  Every action below is *)
(* one task: a call made by the host or the user, the settlement of a      *)
(* platform promise (getUserMedia, an upload, a fetch), or the dispatch of *)
(* one event (MediaRecorder start / dataavailable / stop, FileReader load, *)
(* audio loadeddata).  The promise reactions a task queues are run inside  *)
(* the same action, in FIFO order, by Drain.                               *)
(***************************************************************************)
EXTENDS Integers, Sequences, FiniteSets, TLC

VARIABLES
  platform,  \* "ok": navigator.mediaDevices.getUserMedia exists; "unsupported"
  config,    \* the tool's config: config.recorder, the custom upload functions
  rec,       \* the Recorder instance: mediaStream, mediaRecorder, timer, recordedChunks
  mr,        \* the MediaRecorder objects created so far (platform objects)
  acq,       \* getUserMedia() promises not yet settled, each with the caller's continuation
  ui,        \* the Ui instance: wrapper status classes, 'active', 'paused', timer text
  data,      \* VoiceRecord._data
  upl,       \* uploads started through the Uploader, in start order
  audio,     \* <audio> elements made by fillVoice whose 'loadeddata' has not fired
  fetches,   \* the paste events whose fetch(blob:...) has not settled yet
  log        \* observations: callbacks delivered, calls made

vars == <<platform, config, rec, mr, acq, ui, data, upl, audio, fetches, log>>

----------------------------------------------------------------------------
(* Bounds of the exploration *)

MaxCalls   == 3   \* toggleRecording / togglePauseRecording calls
MaxPending == 2   \* getUserMedia requests pending at the same time
MaxTicks   == 3   \* half-slices of capture per session
MaxUploads == 2   \* paste events, each starting at most one upload
MaxSeconds == 120 \* largest timer value of SpecTimer, in seconds

(* Program constants *)

timeslice == 1000

Quantum == timeslice \div 2   \* granularity of capture time in the model

----------------------------------------------------------------------------
(* Values *)

NoFile    == [present |-> FALSE, url |-> "", extra |-> ""]   \* undefined
EmptyObj  == [present |-> TRUE,  url |-> "", extra |-> ""]   \* {}
FileOf(u, x) == [present |-> TRUE, url |-> u, extra |-> x]

Digits == <<"0", "1", "2", "3", "4", "5", "6", "7", "8", "9">>

\* String(num): the decimal digits of a non-negative integer
RECURSIVE String(_)
String(n) ==
  IF n < 10 THEN <<Digits[n + 1]>>
  ELSE String(n \div 10) \o <<Digits[(n % 10) + 1]>>

\* String.prototype.padStart(places, '0')
zeroPad(s, places) ==
  IF Len(s) >= places THEN s
  ELSE [i \in 1..(places - Len(s)) |-> "0"] \o s

\* the text addTimer hands to onUpdateTimer; this.timer is always a multiple
\* of 1000, so this.timer / 1000 is an integer
FormatTimer_noMod(timer) ==
  LET allSeconds == timer \div 1000
      minutes    == allSeconds \div 60
      seconds    == allSeconds
  IN  zeroPad(String(minutes), 2) \o <<":">> \o zeroPad(String(seconds), 2)
FormatTimer(timer) ==
  LET allSeconds == timer \div 1000
      minutes    == allSeconds \div 60
      seconds    == allSeconds % 60
  IN  zeroPad(String(minutes), 2) \o <<":">> \o zeroPad(String(seconds), 2)

----------------------------------------------------------------------------
(* The world a task works on: the recorder, the platform recorders, the    *)
(* pending acquisitions, the Ui, the observations and the microtask queue. *)

World == [rec |-> rec, mr |-> mr, acq |-> acq, ui |-> ui, log |-> log, mq |-> <<>>]

Push(W, task) == [W EXCEPT !.mq = Append(@, task)]

\* Ui.toggleStatus: each status class is toggled with force = (status = class)
StatusTypes == {"empty", "loading", "filled"}

\* DOMTokenList.toggle(token, force)
classToggle(classes, token, force) ==
  IF force THEN classes \cup {token} ELSE classes \ {token}

toggleStatus_addOnly(classes, status) ==
  classToggle(classes, status, TRUE)
toggleStatus(classes, status) ==
  LET c1 == classToggle(classes, "empty", status = "empty")
      c2 == classToggle(c1, "loading", status = "loading")
  IN  classToggle(c2, "filled", status = "filled")

\* VoiceRecord.onRecorderUpdateTimer -> Ui.updateTimer
onUpdateTimer(W, text) == [W EXCEPT !.ui.timerText = text]

\* Recorder.addTimer
addTimer(W, slice) ==
  LET t == W.rec.timer + slice
  IN  onUpdateTimer([W EXCEPT !.rec.timer = t], FormatTimer(t))

\* VoiceRecord.onRecorderFailed, the Recorder's onError
onRecorderFailed_twice(W) ==
  [W EXCEPT !.log.onError = @ + 2,
            !.ui.paused = FALSE,
            !.ui.active = FALSE,
            !.ui.status = toggleStatus(@, "empty")]
onRecorderFailed(W) ==
  [W EXCEPT !.log.onError = @ + 1,
            !.ui.paused = FALSE,
            !.ui.active = FALSE,
            !.ui.status = toggleStatus(@, "empty")]

\* VoiceRecord.onRecorderTogglePaused -> Ui.togglePaused
onTogglePaused(W, isPaused) ==
  [W EXCEPT !.ui.paused = isPaused, !.log.paused = @ + 1]

\* Recorder.getMediaStream, the executor of the promise it returns: the
\* cached stream resolves at once; otherwise getUserMedia is called and its
\* promise is pending; on a platform without getUserMedia onError is called
\* and the promise rejects
getMediaStream(W, cont) ==
  IF W.rec.mediaStream # 0
    THEN Push(W, [k |-> "mkRecorder", cont |-> cont, v |-> W.rec.mediaStream])
  ELSE IF platform = "ok"
    THEN [W EXCEPT !.acq = Append(@, cont), !.log.gum = @ + 1]
  ELSE Push(onRecorderFailed([W EXCEPT !.log.failed = @ + 1]),
            [k |-> "rejected", cont |-> cont, v |-> 0])

\* Recorder.getMediaRecorder, the executor of the promise it returns; cont is
\* the reaction the caller attaches with .then
getMediaRecorder(W, cont) ==
  IF W.rec.mediaRecorder # 0
    THEN Push(W, [k |-> cont, cont |-> cont, v |-> W.rec.mediaRecorder])
    ELSE getMediaStream(W, cont)

\* the .then reaction of getMediaRecorder on the stream: new MediaRecorder
NewRecorder(stream) ==
  [state |-> "inactive", stream |-> stream, acc |-> 0,
   recMs |-> 0, sess |-> 0, pcalls |-> 0, evq |-> <<>>]

mkRecorder(W, stream, cont) ==
  LET id == Len(W.mr) + 1
  IN  Push([W EXCEPT !.mr = Append(@, NewRecorder(stream)),
                     !.rec.mediaRecorder = id],
           [k |-> cont, cont |-> cont, v |-> id])

\* MediaRecorder.start(timeslice) on an inactive recorder: the state becomes
\* 'recording' at once and a task is queued that fires 'start'
mrStart(W, m) ==
  LET s == W.log.sessions + 1
  IN  [W EXCEPT !.mr[m].state = "recording",
                !.mr[m].acc = 0,
                !.mr[m].recMs = 0,
                !.mr[m].sess = s,
                !.mr[m].pcalls = 0,
                !.mr[m].evq = Append(@, [type |-> "start", size |-> 0, sess |-> s, recMs |-> 0]),
                !.log.sessions = s]

\* MediaRecorder.stop(): nothing on an inactive recorder; otherwise the state
\* becomes 'inactive' at once and one task is queued that fires
\* 'dataavailable' with the data gathered since the last slice (size) and
\* then 'stop'
mrStop(W, m) ==
  IF W.mr[m].state = "inactive" THEN W
  ELSE [W EXCEPT !.mr[m].state = "inactive",
                 !.mr[m].acc = 0,
                 !.mr[m].evq = Append(@, [type |-> "stop", size |-> W.mr[m].acc,
                                          sess |-> W.mr[m].sess,
                                          recMs |-> W.mr[m].recMs])]

\* Recorder.startRecording, the reaction on the recorder: start() throws
\* InvalidStateError on a recorder that is not inactive, after the timer and
\* the chunks were reset; the .catch logs it
startReaction_keepChunks(W, m) ==
  LET W1 == addTimer([W EXCEPT !.rec.timer = 0], 0)
  IN  IF W1.mr[m].state = "inactive"
        THEN mrStart(W1, m)
        ELSE [W1 EXCEPT !.log.badStart = @ + 1]
startReaction(W, m) ==
  LET W1 == addTimer([W EXCEPT !.rec.timer = 0], 0)
      W2 == [W1 EXCEPT !.rec.recordedChunks = <<>>]
  IN  IF W2.mr[m].state = "inactive"
        THEN mrStart(W2, m)
        ELSE [W2 EXCEPT !.log.badStart = @ + 1]

\* Recorder.stopRecording, the reaction on the recorder
stopReaction(W, m) ==
  IF W.mr[m].state = "inactive"
    THEN mrStop([W EXCEPT !.log.badStop = @ + 1], m)
    ELSE mrStop(W, m)

\* Recorder.togglePauseRecording, the reaction on the recorder
pauseReaction_noResume(W, m) ==
  IF W.mr[m].state # "inactive"
    THEN onTogglePaused([W EXCEPT !.mr[m].state = "paused"], TRUE)
  ELSE W
pauseReaction(W, m) ==
  IF W.mr[m].state = "paused"
    THEN onTogglePaused([W EXCEPT !.mr[m].state = "recording"], FALSE)
  ELSE IF W.mr[m].state # "inactive"
    THEN onTogglePaused([W EXCEPT !.mr[m].state = "paused"], TRUE)
  ELSE W

\* Recorder.startRecording / stopRecording, the synchronous part
startRecording(W) == getMediaRecorder(W, "start")
stopRecording(W)  == getMediaRecorder(W, "stop")

\* Recorder.toggleRecording, the reaction on the recorder
toggleReaction(W, m) ==
  IF W.mr[m].state = "inactive"
    THEN startRecording(W)
    ELSE stopRecording(W)

\* Recorder.toggleRecording / togglePauseRecording, the synchronous part
toggleRecording(W) ==
  getMediaRecorder([W EXCEPT !.log.toggles = @ + 1], "toggle")
togglePauseRecording(W) ==
  LET m  == W.rec.mediaRecorder
      W1 == [W EXCEPT !.log.pauses = @ + 1]
  IN  getMediaRecorder(IF m # 0 /\ W.mr[m].state # "inactive"
                         THEN [W1 EXCEPT !.mr[m].pcalls = @ + 1]
                         ELSE W1,
                       "pause")

\* a rejected getMediaRecorder promise reaching the caller: startRecording
\* catches it; toggleRecording, togglePauseRecording and stopRecording attach
\* no rejection handler
rejectedReaction(W, cont) ==
  IF cont = "start" THEN W
  ELSE [W EXCEPT !.log.unhandled = @ + 1]

RunMicrotask(W, t) ==
  CASE t.k = "mkRecorder" -> mkRecorder(W, t.v, t.cont)
    [] t.k = "toggle"     -> toggleReaction(W, t.v)
    [] t.k = "start"      -> startReaction(W, t.v)
    [] t.k = "stop"       -> stopReaction(W, t.v)
    [] t.k = "pause"      -> pauseReaction(W, t.v)
    [] t.k = "rejected"   -> rejectedReaction(W, t.cont)

\* the microtask checkpoint at the end of a task
RECURSIVE Drain(_)
Drain(W) ==
  IF W.mq = <<>> THEN W
  ELSE Drain(RunMicrotask([W EXCEPT !.mq = Tail(@)], Head(W.mq)))

Commit(W) ==
  /\ rec' = W.rec
  /\ mr' = W.mr
  /\ acq' = W.acq
  /\ ui' = W.ui
  /\ log' = W.log

----------------------------------------------------------------------------
(* The controller, the Ui and the Uploader.  C is the part of the state an *)
(* upload reaction works on: the Ui, the data, the pending audio elements  *)
(* and the number of notifier.show calls made for the upload at hand.      *)

Ctl == [ui |-> ui, data |-> data, audio |-> audio, notified |-> 0]

\* Ui.showPreloader / Ui.hidePreloader
showPreloader(u) == [u EXCEPT !.status = toggleStatus(@, "loading")]
hidePreloader(u) == [u EXCEPT !.status = toggleStatus(@, "empty")]

\* Ui.fillVoice: a new <audio src=url> whose 'loadeddata' sets the status
fillVoice(C, url) == [C EXCEPT !.audio = @ + 1]

\* VoiceRecord 'set audio'
setAudio(C, file) ==
  LET C1 == [C EXCEPT !.data.file = IF file.present THEN file ELSE EmptyObj]
  IN  IF file.present /\ file.url # "" THEN fillVoice(C1, file.url) ELSE C1

\* VoiceRecord.uploadingFailed
uploadingFailed(C) ==
  [C EXCEPT !.notified = @ + 1,
            !.ui = hidePreloader([@ EXCEPT !.paused = FALSE, !.active = FALSE])]

\* VoiceRecord.onUpload
onUpload(C, response) ==
  IF response.success /\ response.file.present
    THEN setAudio(C, response.file)
    ELSE uploadingFailed(C)

\* what the Uploader's constructor stores on the instance, and its methods
UploaderFields  == {"config", "onError"}
UploaderMethods == {"toggleRecording", "uploadByUrl", "uploadByFile"}

\* upload.then((response) => { this.onUpload(response) }).catch((error) =>
\* { this.onError(error) }): calling a property the instance does not have
\* throws a TypeError inside the reaction, which the .catch receives
uploadSettled_noCatch(C, outcome, response) ==
  IF outcome = "resolved"
    THEN IF "onUpload" \in UploaderFields THEN onUpload(C, response) ELSE C
    ELSE uploadingFailed(C)
uploadSettled(C, outcome, response) ==
  IF outcome = "resolved"
    THEN IF "onUpload" \in UploaderFields
           THEN onUpload(C, response)
           ELSE uploadingFailed(C)
    ELSE uploadingFailed(C)

\* the constructor of VoiceRecord: new Ui (the timer element reads '00:00',
\* the wrapper has no status class yet); this._data = {}; this.data = data
Construct(saved) ==
  setAudio([ui |-> [status |-> {}, active |-> FALSE, paused |-> FALSE,
                    rendered |-> FALSE,
                    timerText |-> <<"0", "0", ":", "0", "0">>],
            data |-> [file |-> NoFile], audio |-> 0, notified |-> 0],
           saved)

SavedData == {NoFile, FileOf("u1", "x")}

Responses ==
  { [success |-> TRUE,  file |-> FileOf("u2", "x")],
    [success |-> TRUE,  file |-> NoFile],
    [success |-> FALSE, file |-> NoFile],
    [success |-> FALSE, file |-> FileOf("u2", "")] }

NoResponse == [success |-> FALSE, file |-> NoFile]

\* config.recorder: undefined, or an object with custom upload functions
Configs ==
  { [recorder |-> {}],
    [recorder |-> {"uploadByFile", "uploadByUrl"}] }

\* what a custom upload function returns: a Promise, a promise of another
\* implementation (an object with then and catch), or a plain value such as
\* the response object itself
CustomReturns == {"promise", "thenable", "value"}

\* isPromise: Promise.resolve(object) === object holds of native promises only
isPromise(object) == object = "promise"

\* upload.then exists
HasThen(object) == object \in {"promise", "thenable"}

----------------------------------------------------------------------------
Init ==
  /\ platform \in {"ok", "unsupported"}
  /\ config \in Configs
  /\ \E saved \in SavedData :
       LET C == Construct(saved)
       IN  /\ ui = C.ui
           /\ data = C.data
           /\ audio = C.audio
  /\ rec = [mediaStream |-> 0, mediaRecorder |-> 0, timer |-> 0, recordedChunks |-> <<>>]
  /\ mr = <<>>
  /\ acq = <<>>
  /\ upl = <<>>
  /\ fetches = {}
  /\ log = [toggles |-> 0, pauses |-> 0, pastes |-> 0, pasted |-> <<>>, gum |-> 0, granted |-> 0,
            failed |-> 0, onError |-> 0, unhandled |-> 0, sessions |-> 0,
            started |-> 0, stopped |-> 0, stopTimer |-> 0, stopRecMs |-> 0,
            stopSess |-> 0, blob |-> <<>>, paused |-> 0, badStart |-> 0, badStop |-> 0]

Calls == log.toggles + log.pauses

Others == <<platform, config, data, upl, audio, fetches>>

----------------------------------------------------------------------------
(* Tasks of the recorder *)

Call(W, c) == IF c = "toggle" THEN toggleRecording(W) ELSE togglePauseRecording(W)

\* a click on the record button: Recorder.toggleRecording()
ToggleRecording ==
  /\ ui.rendered
  /\ Calls < MaxCalls
  /\ LET W == Drain(toggleRecording(World))
     IN  /\ Len(W.acq) <= MaxPending
         /\ Commit(W)
  /\ UNCHANGED Others

\* a click on the pause button: Recorder.togglePauseRecording()
TogglePauseRecording ==
  /\ ui.rendered
  /\ Calls < MaxCalls
  /\ LET W == Drain(togglePauseRecording(World))
     IN  /\ Len(W.acq) <= MaxPending
         /\ Commit(W)
  /\ UNCHANGED Others

\* two calls made one after the other in the same task
SameTaskCalls(c1, c2) ==
  /\ ui.rendered
  /\ Calls + 2 <= MaxCalls
  /\ LET W == Drain(Call(Call(World, c1), c2))
     IN  /\ Len(W.acq) <= MaxPending
         /\ Commit(W)
  /\ UNCHANGED Others

RemoveAt(s, i) == SubSeq(s, 1, i - 1) \o SubSeq(s, i + 1, Len(s))

\* getUserMedia resolves: .then((stream) => { this.mediaStream = stream; resolve })
GetUserMediaResolved(i) ==
  /\ i \in 1..Len(acq)
  /\ LET stream == log.granted + 1
         W0 == [World EXCEPT !.acq = RemoveAt(@, i),
                             !.log.granted = stream,
                             !.rec.mediaStream = stream]
         W  == Drain(Push(W0, [k |-> "mkRecorder", cont |-> acq[i], v |-> stream]))
     IN  Commit(W)
  /\ UNCHANGED Others

\* getUserMedia rejects: .catch((err) => { this.onError(msg); reject })
GetUserMediaRejected(i) ==
  /\ i \in 1..Len(acq)
  /\ LET W0 == onRecorderFailed([World EXCEPT !.acq = RemoveAt(@, i),
                                              !.log.failed = @ + 1])
         W  == Drain(Push(W0, [k |-> "rejected", cont |-> acq[i], v |-> 0]))
     IN  Commit(W)
  /\ UNCHANGED Others

\* capture goes on for half a slice on a recording MediaRecorder; when a
\* slice of data is gathered a task is queued that fires 'dataavailable'
Elapse(m) ==
  /\ m \in 1..Len(mr)
  /\ mr[m].state = "recording"
  /\ mr[m].recMs < MaxTicks * Quantum
  /\ LET a == mr[m].acc + Quantum
         r == mr[m].recMs + Quantum
     IN  mr' = [mr EXCEPT ![m].recMs = r,
                          ![m].acc = IF a >= timeslice THEN 0 ELSE a,
                          ![m].evq = IF a >= timeslice
                                       THEN Append(@, [type |-> "dataavailable", size |-> a,
                                                       sess |-> mr[m].sess, recMs |-> r])
                                       ELSE @]
  /\ UNCHANGED <<platform, config, rec, acq, ui, data, upl, audio, fetches, log>>

HeadIs(m, type) ==
  /\ m \in 1..Len(mr)
  /\ mr[m].evq # <<>>
  /\ Head(mr[m].evq).type = type

\* 'start' -> this.onStarted -> VoiceRecord.onRecorderStarted -> Ui.setActive(true)
DispatchStart(m) ==
  /\ HeadIs(m, "start")
  /\ mr' = [mr EXCEPT ![m].evq = Tail(@)]
  /\ ui' = [ui EXCEPT !.active = TRUE]
  /\ log' = [log EXCEPT !.started = @ + 1]
  /\ UNCHANGED <<platform, config, rec, acq, data, upl, audio, fetches>>

\* Recorder.onDataAvailable
onDataAvailable(W, e) ==
  addTimer(IF e.size > 0
             THEN [W EXCEPT !.rec.recordedChunks =
                              Append(@, [sess |-> e.sess, size |-> e.size])]
             ELSE W,
           timeslice)

DispatchDataAvailable(m) ==
  /\ HeadIs(m, "dataavailable")
  /\ LET W == onDataAvailable([World EXCEPT !.mr[m].evq = Tail(@)], Head(mr[m].evq))
     IN  Commit(W)
  /\ UNCHANGED Others

\* Uploader.uploadByFile / uploadByUrl: the upload promise is pending; for a
\* file a FileReader is started whose 'load' calls onPreview; arg is the file
\* or the URL passed, named by the paste event it comes from
NewUpload(path, arg) ==
  [path |-> path, arg |-> arg, st |-> "pending", resp |-> NoResponse, notified |-> 0,
   preview |-> IF path = "file" THEN "pending" ELSE "none",
   before |-> data.file, sess |-> log.sessions, done |-> 0,
   custom |-> FALSE, ret |-> "promise", warned |-> FALSE]

\* the custom branch: upload = this.config.recorder.uploadByX(..); a warning
\* when it is not a Promise; then upload.then(..).catch(..), which throws a
\* TypeError out of the uploader call when upload has no then
customUpload(path, arg, ret) ==
  [NewUpload(path, arg) EXCEPT !.custom = TRUE,
                          !.ret = ret,
                          !.warned = ~isPromise(ret),
                          !.st = IF HasThen(ret) THEN "pending" ELSE "threw"]

uploadByFile(uploads, file, ret) ==
  IF "uploadByFile" \in config.recorder
    THEN Append(uploads, customUpload("file", file, ret))
    ELSE Append(uploads, NewUpload("file", file))
uploadByUrl(uploads, url, ret) ==
  IF "uploadByUrl" \in config.recorder
    THEN Append(uploads, customUpload("url", url, ret))
    ELSE Append(uploads, NewUpload("url", url))

\* 'stop' -> new Blob(recordedChunks) -> this.onStopped(blob) ->
\* VoiceRecord.onRecorderStopped -> this.uploader.uploadAudioBlob(blob, ..):
\* the Uploader has no such method, so the call throws a TypeError inside
\* the event listener and no upload starts
onRecorderStopped(uploads) ==
  IF "uploadAudioBlob" \in UploaderMethods
    THEN Append(uploads, NewUpload("file", 0))
    ELSE uploads

\* the task stop() queued: the last 'dataavailable' (onDataAvailable), then
\* 'stop' (the blob of recordedChunks, onStopped)
DispatchStop(m) ==
  /\ HeadIs(m, "stop")
  /\ LET e == Head(mr[m].evq)
         W == onDataAvailable([World EXCEPT !.mr[m].evq = Tail(@)], e)
     IN  Commit([W EXCEPT !.log.stopped = @ + 1,
                          !.log.stopTimer = W.rec.timer,
                          !.log.stopRecMs = e.recMs,
                          !.log.stopSess = e.sess,
                          !.log.blob = W.rec.recordedChunks])
  /\ upl' = onRecorderStopped(upl)
  /\ UNCHANGED <<platform, config, data, audio, fetches>>

----------------------------------------------------------------------------
(* Tasks of the host, the Ui and the uploads *)

\* VoiceRecord.render -> Ui.render(this.data); the host renders a block once
UiRender(u, toolData) ==
  IF (~toolData.file.present) \/ (toolData.file.url = "" /\ toolData.file.extra = "")
    THEN [u EXCEPT !.status = toggleStatus(@, "empty"), !.rendered = TRUE]
    ELSE [u EXCEPT !.status = toggleStatus(@, "loading"), !.rendered = TRUE]

Render ==
  /\ ~ui.rendered
  /\ ui' = UiRender(ui, data)
  /\ UNCHANGED <<platform, config, rec, mr, acq, data, upl, audio, fetches, log>>

\* 'loadeddata' on an <audio> element made by fillVoice
AudioLoaded ==
  /\ audio > 0
  /\ audio' = audio - 1
  /\ ui' = [ui EXCEPT !.status = toggleStatus(@, "filled")]
  /\ UNCHANGED <<platform, config, rec, mr, acq, data, upl, fetches, log>>

CanPaste ==
  /\ ui.rendered
  /\ log.pastes < MaxUploads

\* VoiceRecord.uploadFile / uploadUrl
uploadFile(file, ret) ==
  /\ upl' = uploadByFile(upl, file, ret)
  /\ UNCHANGED ui
uploadUrl(url, ret) ==
  /\ ui' = showPreloader(ui)
  /\ upl' = uploadByUrl(upl, url, ret)

\* the paste event being delivered, and the record of its type
ThisPaste == log.pastes + 1
Pasted(type) == [log EXCEPT !.pastes = @ + 1, !.pasted = Append(@, type)]

\* VoiceRecord.onPaste, event.type = 'file'
PasteFile ==
  /\ CanPaste
  /\ \E ret \in CustomReturns : uploadFile(ThisPaste, ret)
  /\ log' = Pasted("file")
  /\ UNCHANGED <<platform, config, rec, mr, acq, data, audio, fetches>>

\* VoiceRecord.onPaste, event.type = 'pattern'
PastePattern ==
  /\ CanPaste
  /\ \E ret \in CustomReturns : uploadUrl(ThisPaste, ret)
  /\ log' = Pasted("pattern")
  /\ UNCHANGED <<platform, config, rec, mr, acq, data, audio, fetches>>

\* VoiceRecord.onPaste, event.type = 'tag': a blob: source is fetched first
PasteTag(isBlob) ==
  /\ CanPaste
  /\ IF isBlob
       THEN fetches' = fetches \cup {ThisPaste} /\ UNCHANGED <<ui, upl>>
       ELSE (\E ret \in CustomReturns : uploadUrl(ThisPaste, ret)) /\ UNCHANGED fetches
  /\ log' = Pasted(IF isBlob THEN "tag-blob" ELSE "tag-url")
  /\ UNCHANGED <<platform, config, rec, mr, acq, data, audio>>

\* await fetch(audio.src); await response.blob(); this.uploadFile(file)
FetchResolved(p) ==
  /\ p \in fetches
  /\ fetches' = fetches \ {p}
  /\ \E ret \in CustomReturns : uploadFile(p, ret)
  /\ UNCHANGED <<platform, config, rec, mr, acq, data, audio, log>>

\* the fetch rejects: the promise onPaste returned rejects
FetchRejected(p) ==
  /\ p \in fetches
  /\ fetches' = fetches \ {p}
  /\ UNCHANGED <<platform, config, rec, mr, acq, ui, data, upl, audio, log>>

\* FileReader 'load' -> onPreview -> Ui.showPreloader
PreviewLoaded(u) ==
  /\ u \in 1..Len(upl)
  /\ upl[u].preview = "pending"
  /\ upl' = [upl EXCEPT ![u].preview = "shown"]
  /\ ui' = showPreloader(ui)
  /\ UNCHANGED <<platform, config, rec, mr, acq, data, audio, fetches, log>>

Settle(u, outcome, response) ==
  /\ u \in 1..Len(upl)
  /\ upl[u].st = "pending"
  /\ LET C == uploadSettled(Ctl, outcome, response)
     IN  /\ ui' = C.ui
         /\ data' = C.data
         /\ audio' = C.audio
         /\ upl' = [upl EXCEPT ![u].st = outcome,
                               ![u].resp = response,
                               ![u].notified = @ + C.notified,
                               ![u].done = log.sessions]
  /\ UNCHANGED <<platform, config, rec, mr, acq, fetches, log>>

\* the upload promise resolves with the response body
UploadResolved(u, response) == Settle(u, "resolved", response)

\* the request, or the custom upload promise, rejects
UploadRejected(u) == Settle(u, "rejected", NoResponse)

----------------------------------------------------------------------------
CallNames == {"toggle", "pause"}

NextRecorder ==
  \/ Render
  \/ ToggleRecording
  \/ TogglePauseRecording
  \/ \E c1, c2 \in CallNames : SameTaskCalls(c1, c2)
  \/ \E i \in 1..MaxPending : GetUserMediaResolved(i)
  \/ \E i \in 1..MaxPending : GetUserMediaRejected(i)
  \/ \E m \in 1..Len(mr) : Elapse(m)
  \/ \E m \in 1..Len(mr) : DispatchStart(m)
  \/ \E m \in 1..Len(mr) : DispatchDataAvailable(m)
  \/ \E m \in 1..Len(mr) : DispatchStop(m)

NextUpload ==
  \/ AudioLoaded
  \/ PasteFile
  \/ PastePattern
  \/ \E b \in BOOLEAN : PasteTag(b)
  \/ \E p \in fetches : FetchResolved(p)
  \/ \E p \in fetches : FetchRejected(p)
  \/ \E u \in 1..Len(upl) : PreviewLoaded(u)
  \/ \E u \in 1..Len(upl), r \in Responses : UploadResolved(u, r)
  \/ \E u \in 1..Len(upl) : UploadRejected(u)

Next == NextRecorder \/ NextUpload

\* the whole widget
Spec == Init /\ [][Next]_vars

\* the recorder and the controller's reactions to it, without pastes
InitRecorder ==
  /\ Init
  /\ config.recorder = {}

SpecRecorder == InitRecorder /\ [][NextRecorder]_vars

\* the controller, the Ui and the uploads, without the record button, with
\* the default upload (no config.recorder)
InitUpload ==
  /\ Init
  /\ platform = "ok"
  /\ config.recorder = {}

SpecUpload == InitUpload /\ [][Render \/ NextUpload]_vars

\* the same with custom upload functions configured
InitCustom ==
  /\ Init
  /\ platform = "ok"
  /\ config.recorder # {}

SpecCustom == InitCustom /\ [][Render \/ NextUpload]_vars

\* the paste events alone, up to the uploader call each one makes
NextPaste ==
  \/ Render
  \/ PasteFile
  \/ PastePattern
  \/ \E b \in BOOLEAN : PasteTag(b)
  \/ \E p \in fetches : FetchResolved(p)
  \/ \E p \in fetches : FetchRejected(p)

SpecPaste == Init /\ [][NextPaste]_vars

\* one recording widget with nothing saved, on a platform with getUserMedia:
\* record-button clicks, each made once the previous permission request is
\* settled, together with a pasted URL and its upload
InitSession ==
  /\ Init
  /\ platform = "ok"
  /\ config.recorder = {}
  /\ data.file = EmptyObj

SessionResponses ==
  { [success |-> TRUE,  file |-> FileOf("u2", "x")],
    [success |-> FALSE, file |-> NoFile] }

NextSession ==
  \/ Render
  \/ (acq = <<>> /\ ToggleRecording)
  \/ \E i \in 1..MaxPending : GetUserMediaResolved(i)
  \/ \E m \in 1..Len(mr) : Elapse(m)
  \/ \E m \in 1..Len(mr) : DispatchStart(m)
  \/ \E m \in 1..Len(mr) : DispatchDataAvailable(m)
  \/ \E m \in 1..Len(mr) : DispatchStop(m)
  \/ (log.pastes < MaxUploads - 1 /\ PastePattern)
  \/ \E u \in 1..Len(upl), r \in SessionResponses : UploadResolved(u, r)
  \/ \E u \in 1..Len(upl) : UploadRejected(u)

SpecSession == InitSession /\ [][NextSession]_vars

\* every caller of Ui.toggleStatus: render, the 'loadeddata' listener,
\* showPreloader (a pasted URL, the preview of a pasted file) and
\* hidePreloader (a failed upload, a failed acquisition)
NextStatus ==
  \/ Render
  \/ AudioLoaded
  \/ (log.pastes < MaxUploads - 1 /\ PasteFile)
  \/ (log.pastes < MaxUploads - 1 /\ PastePattern)
  \/ \E u \in 1..Len(upl) : PreviewLoaded(u)
  \/ \E u \in 1..Len(upl), r \in SessionResponses : UploadResolved(u, r)
  \/ \E u \in 1..Len(upl) : UploadRejected(u)
  \/ (acq = <<>> /\ ToggleRecording)
  \/ \E i \in 1..MaxPending : GetUserMediaRejected(i)

SpecStatus == InitRecorder /\ [][NextStatus]_vars

\* Recorder.addTimer on its own, from any timer value the ticks can reach
InitTimer ==
  /\ Init
  /\ platform = "ok"
  /\ config.recorder = {}
  /\ data.file = EmptyObj

AddTimerStep(slice) ==
  /\ rec.timer + slice <= MaxSeconds * 1000
  /\ Commit(addTimer(World, slice))
  /\ UNCHANGED Others

NextTimer == \E slice \in {0, timeslice} : AddTimerStep(slice)

SpecTimer == InitTimer /\ [][NextTimer]_vars

----------------------------------------------------------------------------
(* Properties *)

Quiescent == acq = <<>> /\ \A m \in 1..Len(mr) : mr[m].evq = <<>>

RecorderIdle == \A m \in 1..Len(mr) : mr[m].state = "inactive"

\* C1: two toggleRecording() calls from Idle, every permission request
\* granted, end with exactly one 'started', exactly one 'stopped' and no
\* recorder left recording, once nothing is pending any more
C1_TwoTogglesOneInterval ==
  (platform = "ok" /\ log.toggles = 2 /\ log.pauses = 0 /\ log.failed = 0 /\ Quiescent)
    => (log.started = 1 /\ log.stopped = 1 /\ RecorderIdle)

\* C2: a togglePauseRecording() call made while the recorder is Idle changes
\* nothing: no callback, no rejected promise, no recorder state, no request
\* for the microphone
C2_PauseWhileIdleIsNoOp ==
  [][ (log'.pauses = log.pauses + 1 /\ log'.toggles = log.toggles /\ RecorderIdle)
        => ( /\ rec' = rec
             /\ mr' = mr
             /\ acq' = acq
             /\ ui' = ui
             /\ log' = [log EXCEPT !.pauses = @ + 1] ) ]_vars

\* C3: the timer delivered with 'stopped' equals the time the session spent
\* recording (a single recorder, its first session)
C3_TimerIsRecordedTime ==
  (Len(mr) = 1 /\ log.sessions = 1 /\ log.stopped = 1)
    => log.stopTimer = log.stopRecMs

\* C4: after an upload resolved with {success: true, file: F} the persisted
\* data is {file: F} and the notifier was not invoked for it
C4_SuccessfulUploadIsPersisted ==
  \A u \in 1..Len(upl) :
    (log.pastes = 1 /\ upl[u].st = "resolved"
       /\ upl[u].resp.success /\ upl[u].resp.file.present)
      => (data = [file |-> upl[u].resp.file] /\ upl[u].notified = 0)

\* C5: after an upload resolved with a response whose success is falsy or
\* whose file is absent, the notifier was invoked exactly once for it and the
\* persisted data is what it was before the upload started
C5_FailedResponseNotifiesOnce ==
  \A u \in 1..Len(upl) :
    (upl[u].st = "resolved" /\ ~(upl[u].resp.success /\ upl[u].resp.file.present))
      => (upl[u].notified = 1 /\ data.file = upl[u].before)

C5_Witness ==
  \E u \in 1..Len(upl) :
    /\ upl[u].st = "resolved"
    /\ ~upl[u].resp.success
    /\ upl[u].notified = 1
    /\ data.file = upl[u].before

\* C6: a widget constructed with saved data {file: {url: U}}, rendered, whose
\* audio element has fired 'loadeddata', and on which nothing was pasted,
\* shows the Filled status
C6_SavedDataRendersFilled ==
  (data.file.url # "" /\ ui.rendered /\ audio = 0 /\ log.pastes = 0 /\ upl = <<>>)
    => ui.status = {"filled"}

C8_TimerText ==
  LET secs == rec.timer \div 1000
      m    == secs \div 60
      sc   == secs % 60
  IN  /\ m < 100 =>
           ui.timerText = << Digits[(m \div 10) + 1], Digits[(m % 10) + 1], ":",
                             Digits[(sc \div 10) + 1], Digits[(sc % 10) + 1] >>
      /\ rec.timer = 0 => ui.timerText = <<"0", "0", ":", "0", "0">>
      /\ rec.timer = 65000 => ui.timerText = <<"0", "1", ":", "0", "5">>

C8_Witness ==
  /\ rec.timer = 65000
  /\ ui.timerText = <<"0", "1", ":", "0", "5">>

\* C9: every failed acquisition is reported through onError exactly once; the
\* step in which it fails leaves the recorder as it was (nothing cached, no
\* session); as long as nothing was granted the recorder is as constructed;
\* getUserMedia is called only inside a call made by the user, and each such
\* call made while no recorder is cached issues one fresh request (or, on a
\* platform without getUserMedia, fails at once)
C9_AcquisitionFailure ==
  [][ LET calls == (log'.toggles + log'.pauses) - (log.toggles + log.pauses)
          fails == log'.failed - log.failed
      IN  /\ log'.onError - log.onError = fails
          /\ fails > 0 =>
               /\ rec' = rec
               /\ mr' = mr
               /\ log'.started = log.started
               /\ log'.sessions = log.sessions
          /\ log'.granted = 0 =>
               /\ rec' = [mediaStream |-> 0, mediaRecorder |-> 0,
                          timer |-> 0, recordedChunks |-> <<>>]
               /\ mr' = <<>>
               /\ log'.started = 0
          /\ log'.gum > log.gum => calls > 0
          /\ (calls > 0 /\ rec.mediaRecorder = 0 /\ platform = "ok")
               => log'.gum = log.gum + calls
          /\ (calls > 0 /\ platform = "unsupported") => fails = calls
    ]_vars

\* a request was refused and reported once, and the next toggleRecording()
\* has issued a fresh one
C9_Witness ==
  /\ platform = "ok"
  /\ log.failed = 1
  /\ log.onError = 1
  /\ log.toggles = 2
  /\ log.pauses = 0
  /\ log.gum = 2
  /\ Len(acq) = 1
  /\ rec.mediaStream = 0
  /\ rec.mediaRecorder = 0

\* C10: once the only upload of a widget with nothing saved has been
\* rejected and its preview is not pending, the notifier was invoked exactly
\* once for it, the status is Empty and 'active' and 'paused' are cleared
C10_RejectedUploadResetsUi ==
  \A u \in 1..Len(upl) :
    (data.file.url = "" /\ log.pastes = 1 /\ fetches = {}
       /\ upl[u].st = "rejected" /\ upl[u].preview # "pending")
      => (upl[u].notified = 1 /\ ui.status = {"empty"} /\ ~ui.active /\ ~ui.paused)

\* C11: at every moment at most one upload is in flight: at most one upload
\* promise started through the Uploader is still pending
C11_AtMostOneUploadInFlight ==
  Cardinality({u \in 1..Len(upl) : upl[u].st = "pending"}) <= 1

\* C12: an upload whose custom function returned something that is not a
\* Promise was warned about and no exception escaped the uploader call: the
\* value is awaited (pending) or has reached the result handling
C12_NonPromiseIsWarnedNotFatal ==
  \A u \in 1..Len(upl) :
    (upl[u].custom /\ ~isPromise(upl[u].ret))
      => (upl[u].warned /\ upl[u].st \in {"pending", "resolved", "rejected"})

\* the uploader calls a paste event has led to
CallsOf(p) == {u \in 1..Len(upl) : upl[u].arg = p}

\* C13: every paste event that has run to its end has led to exactly one
\* uploader call: uploadByFile for a file and for a tag with a blob: source,
\* uploadByUrl for a pattern and for any other tag
C13_OnePasteOneUploaderCall ==
  \A p \in 1..Len(log.pasted) :
    p \notin fetches =>
      /\ Cardinality(CallsOf(p)) = 1
      /\ \A u \in CallsOf(p) :
           upl[u].path = IF log.pasted[p] \in {"file", "tag-blob"} THEN "file" ELSE "url"

\* C14: once a stream has been acquired, every later step leaves the cached
\* stream and the cached MediaRecorder as they are and makes no further
\* getUserMedia request
C14_StreamIsCached ==
  [][ rec.mediaStream # 0
        => ( /\ rec'.mediaStream = rec.mediaStream
             /\ rec'.mediaRecorder = rec.mediaRecorder
             /\ log'.gum = log.gum ) ]_vars

\* the state of the session recorder m is in: Recording and Paused as the
\* MediaRecorder says; after stop(), Stopping until 'stop' has been
\* delivered, then Stopped; Idle before the first start
SessionState(m) ==
  IF mr[m].state = "recording" THEN "Recording"
  ELSE IF mr[m].state = "paused" THEN "Paused"
  ELSE IF \E i \in 1..Len(mr[m].evq) :
            mr[m].evq[i].type = "stop" /\ mr[m].evq[i].sess = mr[m].sess
    THEN "Stopping"
  ELSE IF mr[m].sess = 0 THEN "Idle"
  ELSE "Stopped"

\* C15: a step that appends a chunk appends it while the session that
\* produced it is Recording (or is flushing its last data on stop), never
\* while it is Idle, Paused or Stopped, and the sequence it is appended to
\* holds chunks of that session only
C15_ChunksOnlyWhileRecording ==
  [][ Len(rec'.recordedChunks) > Len(rec.recordedChunks)
        => LET n == Len(rec'.recordedChunks)
               c == rec'.recordedChunks[n]
           IN  /\ \E m \in 1..Len(mr) :
                    /\ mr[m].sess = c.sess
                    /\ SessionState(m) \in {"Recording", "Stopping"}
               /\ \A i \in 1..n : rec'.recordedChunks[i].sess = c.sess ]_vars

\* C16: in a step taken while a recorder is Recording the timer does not
\* decrease; in a step taken while a recorder is Paused and none is
\* Recording the timer does not change; and the timer decreases only in a
\* step in which startRecording runs, which leaves it at 0
C16_TimerMonotonic ==
  [][ /\ (\E m \in 1..Len(mr) : mr[m].state = "recording")
            => rec'.timer >= rec.timer
      /\ ( /\ \E m \in 1..Len(mr) : mr[m].state = "paused"
           /\ \A m \in 1..Len(mr) : mr[m].state # "recording" )
            => rec'.timer = rec.timer
      /\ rec'.timer < rec.timer
            => ( /\ rec'.timer = 0
                 /\ \/ log'.sessions > log.sessions
                    \/ log'.badStart > log.badStart ) ]_vars

\* the chunks a session that recorded for recMs emits, in emission order: one
\* per full slice and the rest that stop() flushes
ChunksOf(sess, recMs) ==
  [i \in 1..(recMs \div timeslice) |-> [sess |-> sess, size |-> timeslice]]
    \o (IF recMs % timeslice > 0
          THEN << [sess |-> sess, size |-> recMs % timeslice] >>
          ELSE << >>)

\* C17: the blob handed to onStopped for a session is built from exactly the
\* chunks that session produced, all of them, in emission order, the flushed
\* rest included
C17_BlobIsTheSession ==
  log.stopped > 0 => log.blob = ChunksOf(log.stopSess, log.stopRecMs)

\* C18: a togglePauseRecording() call on a Recording recorder leaves it
\* Paused with one onTogglePaused(true); on a Paused recorder it leaves it
\* Recording with one onTogglePaused(false); and a recorder in a session is
\* Paused exactly when the number of calls made during the session is odd
C18_PauseToggles ==
  [][ LET m == rec.mediaRecorder
      IN  /\ (log'.pauses = log.pauses + 1 /\ log'.toggles = log.toggles /\ m # 0)
                => /\ mr[m].state = "recording"
                        => ( /\ mr'[m].state = "paused"
                             /\ ui'.paused = TRUE
                             /\ log'.paused = log.paused + 1 )
                   /\ mr[m].state = "paused"
                        => ( /\ mr'[m].state = "recording"
                             /\ ui'.paused = FALSE
                             /\ log'.paused = log.paused + 1 )
          /\ \A k \in 1..Len(mr') :
                mr'[k].state # "inactive"
                  => ((mr'[k].state = "paused") <=> (mr'[k].pcalls % 2 = 1)) ]_vars

\* a session that was paused and resumed: two calls, two notifications, the
\* recorder is Recording again and the Ui is not paused
C18_Witness ==
  \E m \in 1..Len(mr) :
    /\ mr[m].state = "recording"
    /\ mr[m].pcalls = 2
    /\ log.paused = 2
    /\ log.pauses = 2
    /\ ~ui.paused

\* C19: toggleRecording() never calls start() on a recorder that is recording
\* or paused and never calls stop() on an inactive recorder; each call starts
\* a session when the recorder is inactive and stops the session otherwise
C19_ToggleStartsOrStops ==
  log.badStart = 0 /\ log.badStop = 0

\* C20: every 'stopped' notification has started exactly one upload of the
\* recorded blob through the uploader
C20_StoppedStartsOneUpload ==
  Cardinality({u \in 1..Len(upl) : upl[u].path = "file" /\ upl[u].arg = 0})
    = log.stopped

\* C21: the instance has created at most one MediaRecorder, at most one is
\* recording, and a recorder the instance no longer references is inactive
\* with no event left to deliver (it appends no chunk and advances no timer)
C21_OneMediaRecorder ==
  /\ Len(mr) <= 1
  /\ Cardinality({m \in 1..Len(mr) : mr[m].state = "recording"}) <= 1
  /\ \A m \in 1..Len(mr) :
       m # rec.mediaRecorder => (mr[m].state = "inactive" /\ mr[m].evq = <<>>)

\* the status a step asks toggleStatus for, "" when it asks for none
Requested ==
  IF ui'.rendered /\ ~ui.rendered
    THEN (IF ~data.file.present \/ (data.file.url = "" /\ data.file.extra = "")
            THEN "empty" ELSE "loading")
  ELSE IF audio' < audio THEN "filled"
  ELSE IF log'.onError > log.onError THEN "empty"
  ELSE IF \E u \in 1..Len(upl) : upl'[u].notified > upl[u].notified THEN "empty"
  ELSE IF \E u \in 1..Len(upl) : upl'[u].preview # upl[u].preview THEN "loading"
  ELSE IF Len(upl') > Len(upl) /\ upl'[Len(upl')].path = "url" THEN "loading"
  ELSE ""

\* C22: a step that calls toggleStatus leaves exactly one of the three status
\* classes on the wrapper, the one it asked for; no other step changes the
\* status classes
C22_OneStatusClass ==
  [][ /\ Requested # "" => ui'.status = {Requested}
      /\ Requested = "" => ui'.status = ui.status
      /\ ui'.status \subseteq StatusTypes
      /\ ui'.rendered => Cardinality(ui'.status) = 1 ]_vars

\* the status went from one class to another and to a third: a saved block
\* is rendered (loading), its audio loads (filled), and a failed upload
\* leaves it empty
C22_Witness ==
  /\ ui.rendered
  /\ ui.status = {"empty"}
  /\ data.file.url # ""
  /\ audio = 0
  /\ \E u \in 1..Len(upl) : upl[u].notified = 1

====
